---- MODULE Spec2Model ----
(***************************************************************************)
(* AES-256-GCM encrypt / decrypt pair of src/src/lib.rs.                   *)
(*                                                                         *)
(* encrypt_aes_256_gcm and decrypt_aes_256_gcm are synchronous functions;  *)
(* each is one action here.  The state is what a caller observes: the      *)
(* record of the last call (its arguments, its result and the steps it     *)
(* took), the message the caller holds from the last successful            *)
(* encryption, and what the call before the last one drew, sealed with and *)
(* returned as its error.                                                  *)
(*                                                                         *)
(* The AEAD primitive (ring's AES_256_GCM) is external to the repository.  *)
(* It is modelled by a small cipher of the same shape: a length-preserving *)
(* XOR stream keyed by (key, nonce), a 16-byte tag over (key, nonce,       *)
(* ciphertext) that is collision-free on the inputs enumerated here, and   *)
(* ring's open_within contract: the length check, the tag comparison, the  *)
(* plaintext written over the ciphertext in place, the received tag left   *)
(* in the trailing 16 bytes, the buffer zeroed on a mismatch.              *)
(***************************************************************************)
EXTENDS Integers, Sequences, FiniteSets, TLC

VARIABLES res, msg, prev

vars == <<res, msg, prev>>

(* ------------------------------ constants ------------------------------ *)

\* assert_eq!(key.len(), 32)
KEY_LEN == 32

\* ring::aead::NONCE_LEN
NONCE_LEN == 12

\* AES_256_GCM.tag_len()
TAG_LEN == 16

\* the byte every element of the sealing nonce is set to: [12; NONCE_LEN]
NONCE_FILL == 12

(* -------------------------------- bounds ------------------------------- *)

\* longest enumerated plaintext (besides the "hello world" of the test)
MaxLen == 1

(* ------------------------------ byte tools ----------------------------- *)

RECURSIVE Sum(_)
Sum(s) == IF s = <<>> THEN 0 ELSE Head(s) + Sum(Tail(s))

RECURSIVE XorN(_, _, _)
XorN(a, b, n) ==
  IF n = 0 THEN 0 ELSE ((a + b) % 2) + 2 * XorN(a \div 2, b \div 2, n - 1)

Xor8(a, b) == XorN(a, b, 8)

Pow2(b) == 2 ^ b

\* the byte x with bit b inverted
FlipBitOfByte(x, b) ==
  IF (x \div Pow2(b)) % 2 = 1 THEN x - Pow2(b) ELSE x + Pow2(b)

\* the buffer s with bit b of its i-th byte inverted (same length)
FlipBit(s, i, b) == [s EXCEPT ![i] = FlipBitOfByte(s[i], b)]

Zeros(n) == [i \in 1..n |-> 0]

\* Vec::split_off(at): the tail [at, len) is returned, [0, at) is kept
split_off(v, at) == [kept |-> SubSeq(v, 1, at), tail |-> SubSeq(v, at + 1, Len(v))]

(* --------------------------- the AEAD primitive ------------------------ *)

\* ring::error::Unspecified, the only error value either function returns
Unspecified == "Unspecified"

NoError == "none"

\* SystemRandom::new().fill(&mut nonce): the outcomes of one call
FillOutcomes(randomNonces) ==
  {[ok |-> TRUE, bytes |-> n] : n \in randomNonces}
    \cup {[ok |-> FALSE, bytes |-> <<>>]}

\* Nonce::assume_unique_for_key([12; NONCE_LEN])
FixedNonce == [i \in 1..NONCE_LEN |-> NONCE_FILL]

\* Nonce::try_assume_unique_for_key(nonce): any other length is an error value
try_assume_unique_for_key(nonce) ==
  IF Len(nonce) = NONCE_LEN
    THEN [ok |-> TRUE, err |-> NoError, val |-> nonce]
    ELSE [ok |-> FALSE, err |-> Unspecified, val |-> <<>>]

\* UnboundKey::new(&AES_256_GCM, key): the algorithm's key length is required
UnboundKeyNew(key) ==
  IF Len(key) = KEY_LEN
    THEN [ok |-> TRUE, err |-> NoError]
    ELSE [ok |-> FALSE, err |-> Unspecified]

\* the data XORed with the stream that key and nonce determine; the same
\* operation encrypts and decrypts
Crypt(key, nonce, data) ==
  LET seed == Sum(key) + Sum(nonce)
  IN  [i \in 1..Len(data) |-> Xor8(data[i], (seed + i) % 256)]

\* the 16-byte tag over key, nonce and ciphertext (empty associated data)
Tag(key, nonce, c) ==
  LET k == Sum(key) % 256
      n == Sum(nonce) % 256
  IN
  [i \in 1..TAG_LEN |->
     IF i = 1 THEN k
     ELSE IF i = 2 THEN n
     ELSE IF i = 3 THEN Len(c) % 256
     ELSE IF i - 3 <= Len(c) THEN c[i - 3]
     ELSE 0]

\* key.seal_in_place_append_tag(nonce, aad, &mut in_out): in_out becomes
\* the ciphertext followed by the tag
seal_in_place_append_tag(key, nonce, in_out) ==
  LET c == Crypt(key, nonce, in_out)
  IN  [ok |-> TRUE, err |-> NoError, buf |-> c \o Tag(key, nonce, c)]

\* variant: the length of the buffer is not checked against the tag's, and
\* a buffer shorter than the tag is returned as opened
open_in_place_unchecked_len(key, nonce, in_out) ==
  IF Len(in_out) < TAG_LEN
    THEN [ok |-> TRUE, err |-> NoError, buf |-> in_out]
    ELSE LET n        == Len(in_out) - TAG_LEN
             c        == SubSeq(in_out, 1, n)
             received == SubSeq(in_out, n + 1, Len(in_out))
         IN  IF Tag(key, nonce, c) = received
               THEN [ok |-> TRUE, err |-> NoError,
                     buf |-> Crypt(key, nonce, c) \o received]
               ELSE [ok |-> FALSE, err |-> Unspecified,
                     buf |-> Zeros(n) \o received]

\* key.open_in_place(nonce, aad, &mut in_out): fails on fewer than TAG_LEN
\* bytes and on a tag mismatch (the buffer's data zeroed); on success the
\* plaintext overwrites the ciphertext and the tag stays in the last bytes
open_in_place(key, nonce, in_out) ==
  IF Len(in_out) < TAG_LEN
    THEN [ok |-> FALSE, err |-> Unspecified, buf |-> in_out]
    ELSE LET n        == Len(in_out) - TAG_LEN
             c        == SubSeq(in_out, 1, n)
             received == SubSeq(in_out, n + 1, Len(in_out))
         IN  IF Tag(key, nonce, c) = received
               THEN [ok |-> TRUE, err |-> NoError,
                     buf |-> Crypt(key, nonce, c) \o received]
               ELSE [ok |-> FALSE, err |-> Unspecified,
                     buf |-> Zeros(n) \o received]

(* ----------------------------- the functions --------------------------- *)

\* the record of a call before its first statement has run
Entered(op, key, nonce, input) ==
  [op |-> op, key |-> key, nonce |-> nonce, input |-> input,
   drawn |-> <<>>, cause |-> "none",
   status |-> "running", err |-> NoError, out |-> <<>>, outNonce |-> <<>>,
   entropy |-> 0, parsed |-> FALSE, init |-> FALSE, crypt |-> FALSE,
   sealNonce |-> <<>>, opened |-> <<>>, split |-> FALSE, splitLen |-> 0]

\* encrypt with one statement changed: assertLate moves the key length
\* assertion behind the read of the random source, unwrapFill unwraps the
\* Result of that read, dropTag returns the ciphertext without its tag
EncryptWith(key, plaintext, fill, assertLate, unwrapFill, dropTag) ==
  LET c0 == Entered("encrypt", key, <<>>, plaintext)
      c1 == [c0 EXCEPT !.entropy = 1, !.drawn = fill.bytes]
  IN
  IF Len(key) # KEY_LEN /\ ~assertLate THEN [c0 EXCEPT !.status = "panic"]
  ELSE IF ~fill.ok
    THEN IF unwrapFill THEN [c1 EXCEPT !.status = "panic"]
                       ELSE [c1 EXCEPT !.status = "err", !.err = Unspecified]
  ELSE IF Len(key) # KEY_LEN THEN [c1 EXCEPT !.status = "panic"]
  ELSE
  LET nonce  == FixedNonce
      sealed == seal_in_place_append_tag(key, nonce, plaintext)
  IN  [c1 EXCEPT !.init = TRUE, !.crypt = TRUE, !.sealNonce = nonce,
                 !.status = "ok", !.outNonce = nonce,
                 !.out = IF dropTag THEN SubSeq(sealed.buf, 1, Len(plaintext))
                                    ELSE sealed.buf]

\* variant: the key length is asserted after the random source is read
encrypt_asserting_after_fill(key, plaintext, fill) ==
  EncryptWith(key, plaintext, fill, TRUE, FALSE, FALSE)

\* variant: the Result of the random source is unwrapped, not propagated
encrypt_unwrapping_fill(key, plaintext, fill) ==
  EncryptWith(key, plaintext, fill, FALSE, TRUE, FALSE)

\* variant: the tag is sealed separately and not returned
encrypt_dropping_tag(key, plaintext, fill) ==
  EncryptWith(key, plaintext, fill, FALSE, FALSE, TRUE)

\* pub fn encrypt_aes_256_gcm(key, plaintext); fill is the outcome the
\* random source has for this call
encrypt_aes_256_gcm(key, plaintext, fill) ==
  LET c0 == Entered("encrypt", key, <<>>, plaintext)
  IN
  IF Len(key) # KEY_LEN THEN [c0 EXCEPT !.status = "panic"]
  ELSE
  LET c1 == [c0 EXCEPT !.entropy = 1, !.drawn = fill.bytes]
  IN
  IF ~fill.ok THEN [c1 EXCEPT !.status = "err", !.err = Unspecified]
  ELSE
  LET nonce == FixedNonce
      uk    == UnboundKeyNew(key)
      c2    == [c1 EXCEPT !.init = TRUE]
  IN
  IF ~uk.ok THEN [c2 EXCEPT !.status = "err", !.err = uk.err]
  ELSE
  LET sealed == seal_in_place_append_tag(key, nonce, plaintext)
      c3     == [c2 EXCEPT !.crypt = TRUE, !.sealNonce = nonce]
  IN
  IF ~sealed.ok THEN [c3 EXCEPT !.status = "err", !.err = sealed.err]
  ELSE [c3 EXCEPT !.status = "ok", !.out = sealed.buf, !.outNonce = nonce]

\* decrypt with one statement changed: unwrapNonce unwraps the Result of
\* the nonce conversion, ignoreOpen drops the Result of open_in_place,
\* lengthError returns an error value of its own for a ciphertext shorter
\* than the tag
DecryptWith(key, nonce, ciphertext, unwrapNonce, ignoreOpen, lengthError) ==
  LET c0 == Entered("decrypt", key, nonce, ciphertext)
      n  == try_assume_unique_for_key(nonce)
      c1 == [c0 EXCEPT !.parsed = TRUE]
  IN
  IF Len(key) # KEY_LEN THEN [c0 EXCEPT !.status = "panic"]
  ELSE IF ~n.ok
    THEN IF unwrapNonce THEN [c1 EXCEPT !.status = "panic"]
                        ELSE [c1 EXCEPT !.status = "err", !.err = n.err]
  ELSE IF lengthError /\ Len(ciphertext) < TAG_LEN
    THEN [c1 EXCEPT !.status = "err", !.err = "TooShort"]
  ELSE
  LET opened == open_in_place(key, n.val, ciphertext)
      c3     == [c1 EXCEPT !.init = TRUE, !.crypt = TRUE,
                           !.opened = opened.buf]
      c4     == [c3 EXCEPT !.split = TRUE, !.splitLen = Len(opened.buf)]
  IN
  IF ~opened.ok /\ ~ignoreOpen
    THEN [c3 EXCEPT !.status = "err", !.err = opened.err]
  ELSE IF Len(opened.buf) < TAG_LEN THEN [c4 EXCEPT !.status = "panic"]
  ELSE [c4 EXCEPT !.status = "ok",
                  !.out = split_off(opened.buf, Len(opened.buf) - TAG_LEN).tail]

\* variant: the nonce's Result is unwrapped, not propagated with ?
decrypt_unwrapping_nonce(key, nonce, ciphertext) ==
  DecryptWith(key, nonce, ciphertext, TRUE, FALSE, FALSE)

\* variant: the Result of open_in_place is dropped, not propagated with ?
decrypt_ignoring_open_result(key, nonce, ciphertext) ==
  DecryptWith(key, nonce, ciphertext, FALSE, TRUE, FALSE)

\* variant: a ciphertext shorter than the tag is refused before the open,
\* with an error value of its own
decrypt_with_length_error(key, nonce, ciphertext) ==
  DecryptWith(key, nonce, ciphertext, FALSE, FALSE, TRUE)

\* pub fn decrypt_aes_256_gcm(key, nonce, ciphertext)
decrypt_aes_256_gcm(key, nonce, ciphertext) ==
  LET c0 == Entered("decrypt", key, nonce, ciphertext)
  IN
  IF Len(key) # KEY_LEN THEN [c0 EXCEPT !.status = "panic"]
  ELSE
  LET n  == try_assume_unique_for_key(nonce)
      c1 == [c0 EXCEPT !.parsed = TRUE]
  IN
  IF ~n.ok THEN [c1 EXCEPT !.status = "err", !.err = n.err]
  ELSE
  LET uk == UnboundKeyNew(key)
      c2 == [c1 EXCEPT !.init = TRUE]
  IN
  IF ~uk.ok THEN [c2 EXCEPT !.status = "err", !.err = uk.err]
  ELSE
  LET opened == open_in_place(key, n.val, ciphertext)
      c3     == [c2 EXCEPT !.crypt = TRUE, !.opened = opened.buf]
  IN
  IF ~opened.ok THEN [c3 EXCEPT !.status = "err", !.err = opened.err]
  ELSE
  LET c4 == [c3 EXCEPT !.split = TRUE, !.splitLen = Len(opened.buf)]
  IN
  \* in_out.len() - AES_256_GCM.tag_len() on usize, then split_off
  IF Len(opened.buf) < TAG_LEN THEN [c4 EXCEPT !.status = "panic"]
  ELSE [c4 EXCEPT !.status = "ok",
                  !.out = split_off(opened.buf, Len(opened.buf) - TAG_LEN).tail]

(* ------------------------------ the inputs ----------------------------- *)

\* b"an example very very secret key."
ExampleKey ==
  <<97, 110, 32, 101, 120, 97, 109, 112, 108, 101, 32, 118, 101, 114, 121, 32,
    118, 101, 114, 121, 32, 115, 101, 99, 114, 101, 116, 32, 107, 101, 121, 46>>

\* b"hello world"
HelloWorld == <<104, 101, 108, 108, 111, 32, 119, 111, 114, 108, 100>>

OtherKey == [i \in 1..KEY_LEN |-> i]

Keys32 == {ExampleKey, OtherKey}

\* keys of 16, 24 and 33 bytes
BadKeys ==
  {SubSeq(ExampleKey, 1, 16), SubSeq(ExampleKey, 1, 24), ExampleKey \o <<0>>}

\* the empty plaintext and the prefixes of "hello world" up to MaxLen
\* bytes, a one-byte plaintext of all ones, and "hello world" itself
Plaintexts ==
  {SubSeq(HelloWorld, 1, n) : n \in 0..MaxLen}
    \cup {<<255>>, HelloWorld}

RandomBytes == {7, 200}

\* the values the random source may fill the 12-byte buffer with
RandomNonces == {[i \in 1..NONCE_LEN |-> v] : v \in RandomBytes}

\* nonces of 0, 11 and 13 bytes
BadNonces ==
  {<<>>, SubSeq(FixedNonce, 1, NONCE_LEN - 1), FixedNonce \o <<NONCE_FILL>>}

\* for every byte of s, s with one bit of that byte inverted; the bit
\* inverted moves through the eight bits of a byte along the buffer
Flips(s) == {FlipBit(s, i, (i - 1) % 8) : i \in 1..Len(s)}

\* every proper prefix of s
Truncations(s) == {SubSeq(s, 1, n) : n \in 0..(Len(s) - 1)}

\* buffers that no encryption produced
ArbitraryCts ==
  {<<>>, Zeros(TAG_LEN - 1), Zeros(TAG_LEN), Zeros(TAG_LEN + 1)}

(* ------------------------------- the state ----------------------------- *)

Idle == [Entered("none", <<>>, <<>>, <<>>) EXCEPT !.status = "idle"]

NoMsg == [have |-> FALSE, key |-> <<>>, pt |-> <<>>, ct |-> <<>>, nonce |-> <<>>]


\* the sub-cause of a failed open: the key, the nonce or the ciphertext
SubCause(cause) ==
  IF cause \in {"key", "nonce"} THEN cause ELSE "ciphertext"


\* a decryption that got past the key and nonce length checks and failed
FailedOpen(c) ==
  /\ c.op = "decrypt"
  /\ c.status = "err"
  /\ Len(c.key) = KEY_LEN
  /\ Len(c.nonce) = NONCE_LEN

\* what is kept of a call once the next call has returned: the nonces of
\* a sealing call, the sub-cause and the error of a failed open
Summary(c) ==
  LET sealed == c.op = "encrypt" /\ c.crypt
      failed == FailedOpen(c)
  IN  [sealed |-> sealed,
       drawn |-> IF sealed THEN c.drawn ELSE <<>>,
       sealNonce |-> IF sealed THEN c.sealNonce ELSE <<>>,
       failed |-> failed,
       cause |-> IF failed THEN SubCause(c.cause) ELSE "none",
       err |-> IF failed THEN c.err ELSE NoError]

Init ==
  /\ res = Idle
  /\ msg = NoMsg
  /\ prev = Summary(Idle)

\* a call returns (res' is its record): the caller keeps what an encryption
\* returned, and the call that was the last one becomes the one before
Return ==
  /\ msg' = IF res'.op = "encrypt" /\ res'.status = "ok"
              THEN [have |-> TRUE, key |-> res'.key, pt |-> res'.input,
                    ct |-> res'.out, nonce |-> res'.outNonce]
              ELSE msg
  /\ prev' = Summary(res)

\* a call of decrypt; cause says how the caller's arguments relate to what
\* encrypt returned
Decrypt(key, nonce, ciphertext, cause) ==
  /\ res' = [decrypt_aes_256_gcm(key, nonce, ciphertext) EXCEPT !.cause = cause]
  /\ Return

(* ------------------------------ the actions ---------------------------- *)

Encrypt ==
  \E key \in Keys32 \cup BadKeys, plaintext \in Plaintexts,
     fill \in FillOutcomes(RandomNonces) :
       /\ res' = encrypt_aes_256_gcm(key, plaintext, fill)
       /\ Return

\* the caller decrypts what encrypt returned
DecryptReturned ==
  /\ msg.have
  /\ Decrypt(msg.key, msg.nonce, msg.ct, "none")

DecryptFlippedKey ==
  /\ msg.have
  /\ \E key \in Flips(msg.key) : Decrypt(key, msg.nonce, msg.ct, "key")

DecryptOtherKey ==
  /\ msg.have
  /\ \E key \in Keys32 \ {msg.key} : Decrypt(key, msg.nonce, msg.ct, "key")

DecryptFlippedNonce ==
  /\ msg.have
  /\ \E nonce \in Flips(msg.nonce) : Decrypt(msg.key, nonce, msg.ct, "nonce")

DecryptOtherNonce ==
  /\ msg.have
  /\ \E nonce \in RandomNonces \ {msg.nonce} :
       Decrypt(msg.key, nonce, msg.ct, "nonce")

\* a bit of the ciphertext or of the tag is inverted
DecryptFlippedCiphertext ==
  /\ msg.have
  /\ \E ct \in Flips(msg.ct) : Decrypt(msg.key, msg.nonce, ct, "ciphertext")

DecryptTruncated ==
  /\ msg.have
  /\ \E ct \in Truncations(msg.ct) :
       Decrypt(msg.key, msg.nonce, ct, "truncated")

DecryptArbitrary ==
  \E key \in Keys32, ct \in ArbitraryCts :
    Decrypt(key, FixedNonce, ct, "forged")

DecryptNonceLength ==
  \E key \in Keys32, nonce \in BadNonces,
     ct \in ArbitraryCts \cup (IF msg.have THEN {msg.ct} ELSE {}) :
       Decrypt(key, nonce, ct, "nonce_length")

DecryptKeyLength ==
  \E key \in BadKeys, nonce \in {<<>>, FixedNonce},
     ct \in {Zeros(TAG_LEN)} \cup (IF msg.have THEN {msg.ct} ELSE {}) :
       Decrypt(key, nonce, ct, "key_length")

Next ==
  \/ Encrypt
  \/ DecryptReturned
  \/ DecryptFlippedKey
  \/ DecryptOtherKey
  \/ DecryptFlippedNonce
  \/ DecryptOtherNonce
  \/ DecryptFlippedCiphertext
  \/ DecryptTruncated
  \/ DecryptArbitrary
  \/ DecryptNonceLength
  \/ DecryptKeyLength

Spec == Init /\ [][Next]_vars

(* ------------------------------ the claims ----------------------------- *)

IsCall == res.op \in {"encrypt", "decrypt"}

\* a and b have the same length and differ in exactly one bit
SingleBitDiff(a, b) ==
  /\ Len(a) = Len(b)
  /\ \E i \in 1..Len(a) :
       /\ \A j \in 1..Len(a) : j # i => a[j] = b[j]
       /\ Xor8(a[i], b[i]) \in {Pow2(k) : k \in 0..7}

\* the last call decrypted exactly what the last successful encrypt returned
DecryptsReturned ==
  /\ msg.have
  /\ res.op = "decrypt"
  /\ res.key = msg.key
  /\ res.nonce = msg.nonce
  /\ res.input = msg.ct

\* C1: round trip. Decrypting, with the same key and the returned nonce,
\* the ciphertext that encrypt returned succeeds and returns the plaintext
\* that was encrypted.
RoundTrip ==
  DecryptsReturned => res.status = "ok" /\ res.out = msg.pt

\* C2: nonce uniqueness. Every encrypt call that seals does so with the 12
\* bytes it has just drawn from the random source and returns them, so two
\* sealing calls whose draws differ seal with different nonces.
NonceFresh ==
  /\ res.op = "encrypt" /\ res.crypt => res.sealNonce = res.drawn
  /\ res.op = "encrypt" /\ res.status = "ok" => res.outNonce = res.drawn
  /\ prev.sealed /\ res.op = "encrypt" /\ res.crypt /\ prev.drawn # res.drawn
       => prev.sealNonce # res.sealNonce

\* the last call decrypted what encrypt returned with one bit of the key, of
\* the nonce or of the ciphertext-with-tag inverted
SingleBitTampered ==
  /\ msg.have
  /\ res.op = "decrypt"
  /\ \/ SingleBitDiff(res.key, msg.key)
        /\ res.nonce = msg.nonce /\ res.input = msg.ct
     \/ SingleBitDiff(res.nonce, msg.nonce)
        /\ res.key = msg.key /\ res.input = msg.ct
     \/ SingleBitDiff(res.input, msg.ct)
        /\ res.key = msg.key /\ res.nonce = msg.nonce

\* C3: tamper detection. Decrypting with one bit of the key, the nonce or the
\* ciphertext-with-tag inverted fails in the open operation with the error
\* value and returns no byte.
TamperDetected ==
  SingleBitTampered =>
    /\ res.status = "err"
    /\ res.err = Unspecified
    /\ res.crypt
    /\ res.out = <<>>

\* a bit of the tag of the "hello world" message was inverted and the
\* decryption failed
TamperDetectedWitness ==
  /\ SingleBitTampered
  /\ msg.pt = HelloWorld
  /\ res.input # msg.ct
  /\ SubSeq(res.input, 1, Len(msg.pt)) = SubSeq(msg.ct, 1, Len(msg.pt))
  /\ res.status = "err"

\* C4: key length enforcement. A call of encrypt or decrypt with a key that
\* is not 32 bytes long is rejected before any work: no entropy is drawn, no
\* nonce is parsed, no cipher is initialised, nothing is sealed or opened.
KeyLengthEnforced ==
  IsCall /\ Len(res.key) # KEY_LEN =>
    /\ res.status # "ok"
    /\ res.out = <<>>
    /\ res.outNonce = <<>>
    /\ res.entropy = 0
    /\ ~res.parsed
    /\ ~res.init
    /\ ~res.crypt

\* encrypt was called with the 33-byte key and rejected
KeyLengthEnforcedWitness ==
  /\ res.op = "encrypt"
  /\ Len(res.key) = KEY_LEN + 1
  /\ res.status # "ok"

\* C5: nonce length enforcement. With a 32-byte key, decrypt with a nonce
\* that is not 12 bytes long returns an error value (it does not abort) and
\* no plaintext, whatever the ciphertext.
NonceLengthEnforced ==
  res.op = "decrypt" /\ Len(res.key) = KEY_LEN /\ Len(res.nonce) # NONCE_LEN =>
    /\ res.status = "err"
    /\ res.err = Unspecified
    /\ res.out = <<>>

\* the returned ciphertext was decrypted under its key with the returned
\* nonce extended by one byte, and the call returned an error
NonceLengthEnforcedWitness ==
  /\ msg.have
  /\ res.op = "decrypt"
  /\ res.key = msg.key
  /\ res.input = msg.ct
  /\ Len(res.nonce) = NONCE_LEN + 1
  /\ SubSeq(res.nonce, 1, NONCE_LEN) = msg.nonce
  /\ res.status = "err"

\* C6: output shape of encrypt. A successful encrypt returns the ciphertext,
\* as long as the plaintext, followed by the 16-byte tag over it, and a
\* 12-byte nonce; "hello world" gives 27 bytes.
EncryptShape ==
  res.op = "encrypt" /\ res.status = "ok" =>
    /\ Len(res.out) = Len(res.input) + TAG_LEN
    /\ SubSeq(res.out, Len(res.input) + 1, Len(res.out))
         = Tag(res.key, res.sealNonce, SubSeq(res.out, 1, Len(res.input)))
    /\ Len(res.outNonce) = NONCE_LEN
    /\ res.input = HelloWorld => Len(res.out) = 27

\* "hello world" was encrypted under the example key
EncryptShapeWitness ==
  /\ res.op = "encrypt"
  /\ res.status = "ok"
  /\ res.key = ExampleKey
  /\ res.input = HelloWorld
  /\ Len(res.out) = 27

\* C7: error propagation, as claimed. No call of encrypt or decrypt aborts:
\* every call returns a result.
NeverPanics ==
  IsCall => res.status \in {"ok", "err"}

\* C7, amended. A call of encrypt or decrypt aborts exactly when its key is
\* not 32 bytes long; every failing call with a 32-byte key returns the
\* error value.
PanicsOnlyOnKeyLength ==
  IsCall =>
    /\ res.status = "panic" <=> Len(res.key) # KEY_LEN
    /\ Len(res.key) = KEY_LEN /\ res.status # "ok" =>
         res.status = "err" /\ res.err = Unspecified

\* encrypt with a 32-byte key failed on the random source and returned the
\* error value
PanicsOnlyOnKeyLengthWitness ==
  /\ res.op = "encrypt"
  /\ Len(res.key) = KEY_LEN
  /\ res.entropy = 1
  /\ res.status = "err"
  /\ res.err = Unspecified

\* C8: error indistinguishability. Two decrypt calls with 32-byte keys and
\* 12-byte nonces that fail, for whichever sub-causes, return the same error
\* value and nothing else.
ErrorsIndistinguishable ==
  prev.failed /\ FailedOpen(res) =>
    /\ res.err = prev.err
    /\ res.out = <<>>

\* a decryption that failed on a wrong key was followed by one that failed
\* on a ciphertext shorter than the tag
ErrorsIndistinguishableWitness ==
  /\ prev.failed
  /\ prev.cause = "key"
  /\ FailedOpen(res)
  /\ res.cause = "truncated"
  /\ Len(res.input) < TAG_LEN

\* C9: tag stripping. A successful decrypt of n bytes returns the first
\* n - 16 bytes of the opened buffer, without the 16 bytes of the tag.
TagStripped ==
  res.op = "decrypt" /\ res.status = "ok" =>
    res.out = SubSeq(res.opened, 1, Len(res.input) - TAG_LEN)

\* C10: truncated input. With a 32-byte key and a 12-byte nonce, decrypt of
\* fewer than 16 bytes returns an error value, and the length len - 16 is
\* computed only for a buffer of at least 16 bytes.
TruncatedRejected ==
  /\ res.op = "decrypt" /\ Len(res.key) = KEY_LEN
       /\ Len(res.nonce) = NONCE_LEN /\ Len(res.input) < TAG_LEN
       => res.status = "err" /\ res.out = <<>> /\ ~res.split
  /\ res.split => res.splitLen >= TAG_LEN

\* the first 15 bytes of a returned ciphertext were decrypted under its key
\* and nonce, and the call returned an error
TruncatedRejectedWitness ==
  /\ msg.have
  /\ res.op = "decrypt"
  /\ res.key = msg.key
  /\ res.nonce = msg.nonce
  /\ res.input = SubSeq(msg.ct, 1, TAG_LEN - 1)
  /\ res.status = "err"

====
